---- MODULE Spec2Model ----
(***************************************************************************)
(* Model of the gormer data-access helpers.  The repository holds two      *)
(* iterations of the package: src/pkg/gormer.go (variant "pkg") and an     *)
(* earlier file, src/unnamed/part_000 (variant "unnamed").  Definitions    *)
(* of the earlier file carry the suffix V0.                                *)
(*                                                                         *)
(* The store (gorm) is the environment: a table of entities                *)
(* T = [ID, UpdatedAt] keyed by ID, whose calls may fail.                  *)
(***************************************************************************)
EXTENDS Integers, Sequences, FiniteSets, TLC

VARIABLES
    variant,    \* which of the two files the caller is built against
    store,      \* the table of T: a function from the stored IDs to UpdatedAt
    last,       \* the last Query Engine call: inputs, store before, outcome
    listObjs,   \* heap of QueryListConfig objects, by address
    pointObjs,  \* heap of QueryConfig objects, by address
    listRef,    \* the caller's QueryListConfig pointers
    pointRef,   \* the caller's QueryConfig pointers
    call,       \* the last builder call: name, pointer, argument, heap before
    steps       \* number of builder calls made

vars == <<variant, store, last, listObjs, pointObjs, listRef, pointRef, call, steps>>

(***************************************************************************)
(* Bounds                                                                  *)
(***************************************************************************)
MaxRows == 3
MaxSteps == 4

Ids == 1..MaxRows
Times == {1, 2}
Variants == {"pkg", "unnamed"}

(***************************************************************************)
(* Order, Where, entities                                                  *)
(***************************************************************************)
DESC == 0
ASC == 1

OrderString(o) == IF o = ASC THEN "asc" ELSE "desc"

DefaultPageSize == 10
DefaultPage == 1
DefaultOrderBy == "updated_at"

ZeroT == [ID |-> 0, UpdatedAt |-> 0]

Where(q, a) == [Query |-> q, Args |-> a]

NoErr == "nil"
ErrNoClient == "get db client failed"
ErrRecordNotFound == "record not found"
ErrInvalidValue == "invalid value"
ErrStore == "store failure"

(***************************************************************************)
(* The store-client capability (gorm.DB): a handle carries the clauses     *)
(* chained on it; the finisher calls read or change the table.             *)
(***************************************************************************)
NilDB == [nil |-> TRUE]
Conn == [nil |-> FALSE, wheres |-> <<>>, preloads |-> <<>>]

DbWhere(db, w) == [db EXCEPT !.wheres = Append(@, w)]
DbPreload(db, p) == [db EXCEPT !.preloads = Append(@, p)]

RECURSIVE ApplyWheres(_, _)
ApplyWheres(db, ws) ==
    IF ws = <<>> THEN db ELSE ApplyWheres(DbWhere(db, Head(ws)), Tail(ws))

RECURSIVE ApplyPreloads(_, _)
ApplyPreloads(db, ps) ==
    IF ps = <<>> THEN db ELSE ApplyPreloads(DbPreload(db, Head(ps)), Tail(ps))

Rows(st) == {[ID |-> i, UpdatedAt |-> st[i]] : i \in DOMAIN st}

Put(st, t) == [i \in DOMAIN st \cup {t.ID} |-> IF i = t.ID THEN t.UpdatedAt ELSE st[i]]

Remove(st, id) == [i \in DOMAIN st \ {id} |-> st[i]]

EvalWhere(w, r) ==
    IF w.Query = "id = ?" THEN r.ID = w.Args ELSE r.UpdatedAt = w.Args

Scoped(st, db) ==
    {r \in Rows(st) : \A i \in 1..Len(db.wheres) : EvalWhere(db.wheres[i], r)}

DbCount(st, db, fault) ==
    IF "count" \in fault
    THEN [err |-> ErrStore, n |-> 0]
    ELSE [err |-> NoErr, n |-> Cardinality(Scoped(st, db))]

DbFirst(st, db, fault) ==
    IF "first" \in fault THEN [err |-> ErrStore, t |-> ZeroT]
    ELSE IF Scoped(st, db) = {} THEN [err |-> ErrRecordNotFound, t |-> ZeroT]
    ELSE [err |-> NoErr,
          t |-> CHOOSE r \in Scoped(st, db) : \A q \in Scoped(st, db) : r.ID <= q.ID]

SortKey(r, orderBy) == IF orderBy = "id" THEN r.ID ELSE r.UpdatedAt

InOrder(a, b, orderBy, dir) ==
    IF dir = "asc" THEN SortKey(a, orderBy) <= SortKey(b, orderBy)
    ELSE SortKey(a, orderBy) >= SortKey(b, orderBy)

\* every order of the rows the ORDER BY clause allows (ties are the store's)
Orderings(S, orderBy, dir) ==
    {s \in [1..Cardinality(S) -> S] :
        \A i, j \in 1..Cardinality(S) :
            i < j => (s[i] # s[j] /\ InOrder(s[i], s[j], orderBy, dir))}

Min(a, b) == IF a <= b THEN a ELSE b

Slice(s, offset, limit) ==
    IF offset >= Len(s) THEN <<>>
    ELSE SubSeq(s, offset + 1, Min(Len(s), offset + limit))

\* the results Order(..).Offset(..).Limit(..).Find(..) may give
DbFind(st, db, orderBy, dir, offset, limit, fault) ==
    IF "find" \in fault
    THEN {[err |-> ErrStore, data |-> <<>>]}
    ELSE {[err |-> NoErr, data |-> Slice(s, offset, limit)] :
            s \in Orderings(Scoped(st, db), orderBy, dir)}

DbCreate(st, t, fault) ==
    IF "create" \in fault \/ t.ID \in DOMAIN st
    THEN [err |-> ErrStore, store |-> st]
    ELSE [err |-> NoErr, store |-> Put(st, t)]

DbSave(st, t, fault) ==
    IF "save" \in fault
    THEN [err |-> ErrStore, store |-> st]
    ELSE [err |-> NoErr, store |-> Put(st, t)]

\* Delete of a value: by primary key.  A nil pointer names no row; what the
\* store answers to it (nilErr) is the store's choice.
DbDelete(st, t, fault, nilErr) ==
    IF t.nil THEN [err |-> nilErr, store |-> st]
    ELSE IF "delete" \in fault THEN [err |-> ErrStore, store |-> st]
    ELSE [err |-> NoErr, store |-> Remove(st, t.t.ID)]

(***************************************************************************)
(* Outcomes of a Query Engine call                                         *)
(***************************************************************************)
NoRes == [kind |-> "none"]
NilPtr == [kind |-> "ptr", nil |-> TRUE, t |-> ZeroT]
Ptr(t) == [kind |-> "ptr", nil |-> FALSE, t |-> t]
BoolRes(b) == [kind |-> "bool", b |-> b]
ListRes(total, page, data) ==
    [kind |-> "list", nil |-> FALSE, Total |-> total, Page |-> page, Data |-> data]
NilList == [kind |-> "list", nil |-> TRUE, Total |-> 0, Page |-> 0, Data |-> <<>>]

\* calls: the store calls and hook applications made, in order; warns: slog.Warn lines written
Out(err, res, calls, warns, st) ==
    [err |-> err, res |-> res, calls |-> calls, warns |-> warns, store |-> st]

\* a nil *gorm.DB dereferenced by Model(): the call does not return
Panic(calls, st) == Out("panic", NoRes, calls, 0, st)

(***************************************************************************)
(* Post-fetch hooks (AdviceItemFunc): supplied by the caller               *)
(***************************************************************************)
ErrHook == "hook failed"

Advice(f, t) ==
    CASE f = "bump"     -> [t |-> [t EXCEPT !.UpdatedAt = @ + 10], err |-> NoErr]
      [] f = "failZero" -> [t |-> ZeroT, err |-> ErrHook]
      [] f = "failEdit" -> [t |-> [t EXCEPT !.UpdatedAt = @ + 100], err |-> ErrHook]
      [] OTHER          -> [t |-> t, err |-> ErrHook]

(***************************************************************************)
(* src/pkg/gormer.go: the Query Engine                                     *)
(***************************************************************************)
\* mutant: the offset taken from the page number itself
PageOffsetFromPage(qc) == qc.Page * qc.PageSize

PageOffset(qc) == (qc.Page - 1) * qc.PageSize

\* mutant: the count's error is not looked at
CountNeverFailed(c) == FALSE

CountFailed(c) == c.err # NoErr

FindFailed(f) == f.err # NoErr

\* one pass of the inner loop: qr.Data[j], err = itemFunc(datum)
ItemPass(f, data) == [j \in 1..Len(data) |-> Advice(f, data[j]).t]

PassWarns(f, data) ==
    Cardinality({j \in 1..Len(data) : Advice(f, data[j]).err # NoErr})

RECURSIVE RunAdvice(_, _)
RunAdvice(fs, data) ==
    IF fs = <<>> THEN [data |-> data, calls |-> <<>>, warns |-> 0]
    ELSE LET rest == RunAdvice(Tail(fs), ItemPass(Head(fs), data))
         IN  [data  |-> rest.data,
              calls |-> [j \in 1..Len(data) |-> "hook"] \o rest.calls,
              warns |-> PassWarns(Head(fs), data) + rest.warns]

QueryList(dc, tdc, qc, st, fault) ==
    IF dc.nil THEN {Panic(<<>>, st)}
    ELSE LET c == DbCount(st, ApplyWheres(dc, qc.Wheres), fault) IN
    IF CountFailed(c) THEN {Out(c.err, NilList, <<"count">>, 0, st)}
    ELSE IF tdc.nil THEN {Panic(<<"count">>, st)}
    ELSE LET h == ApplyPreloads(ApplyWheres(tdc, qc.Wheres), qc.Preloads) IN
        {IF FindFailed(f)
         THEN Out(f.err, NilList, <<"count", "find">>, 0, st)
         ELSE LET a == RunAdvice(qc.AdviceItemFuncs, f.data)
              IN  Out(NoErr, ListRes(c.n, qc.Page, a.data),
                      <<"count", "find">> \o a.calls, a.warns, st) :
         f \in DbFind(st, h, qc.OrderBy, OrderString(qc.Order),
                      PageOffset(qc), qc.PageSize, fault)}

\* mutant: no nil check on the handle
CreateUnchecked(db, t, st, fault) ==
    LET r == DbCreate(st, t, fault)
    IN  Out(r.err, NoRes, <<"create">>, 0, r.store)

Create(db, t, st, fault) ==
    IF db.nil THEN Out(ErrNoClient, NoRes, <<>>, 0, st)
    ELSE LET r == DbCreate(st, t, fault)
         IN  Out(r.err, NoRes, <<"create">>, 0, r.store)

Exist(db, qc, st, fault) ==
    IF db.nil THEN Out(ErrNoClient, BoolRes(FALSE), <<>>, 0, st)
    ELSE LET d == IF ~qc.nil THEN ApplyWheres(db, qc.Wheres) ELSE db
             c == DbCount(st, d, fault)
         IN  IF c.err # NoErr
             THEN Out(c.err, BoolRes(FALSE), <<"count">>, 0, st)
             ELSE Out(NoErr, BoolRes(c.n > 0), <<"count">>, 0, st)

Update(db, t, st, fault) ==
    IF db.nil THEN Out(ErrNoClient, NoRes, <<>>, 0, st)
    ELSE LET r == DbSave(st, t, fault)
         IN  Out(r.err, NoRes, <<"save">>, 0, r.store)

\* mutant: the not-found error is not told apart
NotFoundNever(e) == FALSE

NotFound(e) == e = ErrRecordNotFound

Query(db, qc, st, fault) ==
    IF db.nil THEN Out(ErrNoClient, NilPtr, <<>>, 0, st)
    ELSE LET d1 == IF ~qc.nil THEN ApplyWheres(db, qc.Wheres) ELSE db
             d2 == IF ~qc.nil THEN ApplyPreloads(d1, qc.Preloads) ELSE d1
             r  == DbFirst(st, d2, fault)
         IN  IF r.err # NoErr /\ NotFound(r.err)
             THEN Out(NoErr, NilPtr, <<"first">>, 0, st)
             ELSE IF r.err # NoErr
             THEN Out(r.err, NilPtr, <<"first">>, 0, st)
             ELSE Out(NoErr, Ptr(r.t), <<"first">>, 0, st)

\* mutant: the row is looked up and never deleted
DeleteLookupOnly(db, qc, st, fault, nilErr) ==
    IF db.nil THEN Out(ErrNoClient, NoRes, <<>>, 0, st)
    ELSE LET q == Query(db, qc, st, fault)
         IN  Out(q.err, NoRes, q.calls, 0, st)

Delete(db, qc, st, fault, nilErr) ==
    IF db.nil THEN Out(ErrNoClient, NoRes, <<>>, 0, st)
    ELSE LET q == Query(db, qc, st, fault) IN
         IF q.err # NoErr THEN Out(q.err, NoRes, q.calls, 0, st)
         ELSE LET d == DbDelete(st, q.res, fault, nilErr)
              IN  Out(d.err, NoRes, q.calls \o <<"delete">>, 0, d.store)

(***************************************************************************)
(* src/unnamed/part_000: the Query Engine of the earlier file              *)
(***************************************************************************)
PageOffsetV0(qc) == (qc.Page - 1) * qc.PageSize

QueryListV0(dc, tdc, qc, st, fault) ==
    IF tdc.nil THEN {Panic(<<>>, st)}
    ELSE LET c == DbCount(st, ApplyWheres(tdc, qc.Wheres), fault) IN
    IF c.err # NoErr THEN {Out(c.err, NilList, <<"count">>, 0, st)}
    ELSE IF dc.nil THEN {Panic(<<"count">>, st)}
    ELSE {IF f.err # NoErr
          THEN Out(f.err, NilList, <<"count", "find">>, 0, st)
          ELSE Out(NoErr, ListRes(c.n, qc.Page, f.data), <<"count", "find">>, 0, st) :
          f \in DbFind(st, ApplyWheres(dc, qc.Wheres), qc.OrderBy,
                       OrderString(qc.Order), PageOffsetV0(qc), qc.PageSize, fault)}

CreateV0(db, t, st, fault) ==
    IF db.nil THEN Out(ErrNoClient, NoRes, <<>>, 0, st)
    ELSE LET r == DbCreate(st, t, fault)
         IN  Out(r.err, NoRes, <<"create">>, 0, r.store)

\* db.Count(&count): the call's error is not read; a failed count leaves 0
ExistV0(db, qc, st, fault) ==
    IF db.nil THEN Out(ErrNoClient, BoolRes(FALSE), <<>>, 0, st)
    ELSE LET d == IF ~qc.nil THEN ApplyWheres(db, qc.Wheres) ELSE db
             c == DbCount(st, d, fault)
         IN  Out(NoErr, BoolRes(c.n > 0), <<"count">>, 0, st)

UpdateV0(db, t, st, fault) ==
    IF db.nil THEN Out(ErrNoClient, NoRes, <<>>, 0, st)
    ELSE LET r == DbSave(st, t, fault)
         IN  Out(r.err, NoRes, <<"save">>, 0, r.store)

QueryV0(db, qc, st, fault) ==
    IF db.nil THEN Out(ErrNoClient, NilPtr, <<>>, 0, st)
    ELSE LET d == IF ~qc.nil THEN ApplyWheres(db, qc.Wheres) ELSE db
             r == DbFirst(st, d, fault)
         IN  IF r.err # NoErr /\ r.err = ErrRecordNotFound
             THEN Out(NoErr, NilPtr, <<"first">>, 0, st)
             ELSE IF r.err # NoErr
             THEN Out(r.err, NilPtr, <<"first">>, 0, st)
             ELSE Out(NoErr, Ptr(r.t), <<"first">>, 0, st)

DeleteV0(db, qc, st, fault, nilErr) ==
    IF db.nil THEN Out(ErrNoClient, NoRes, <<>>, 0, st)
    ELSE LET e == ExistV0(db, qc, st, fault) IN
         IF e.err # NoErr THEN Out(e.err, NoRes, e.calls, 0, st)
         ELSE IF ~e.res.b THEN Out(NoErr, NoRes, e.calls, 0, st)
         ELSE LET q == QueryV0(db, qc, st, fault) IN
              IF q.err # NoErr THEN Out(q.err, NoRes, e.calls \o q.calls, 0, st)
              ELSE LET d == DbDelete(st, q.res, fault, nilErr)
                   IN  Out(d.err, NoRes, e.calls \o q.calls \o <<"delete">>, 0, d.store)

(***************************************************************************)
(* Inputs of the Query Engine calls                                        *)
(***************************************************************************)
Handles == {NilDB, Conn}

HandlePairs == {<<Conn, Conn>>, <<NilDB, Conn>>, <<Conn, NilDB>>}

Entities == [ID : Ids, UpdatedAt : Times]

WhereLists ==
    {<<>>,
     <<Where("updated_at = ?", 1)>>,
     <<Where("updated_at = ?", 1), Where("id = ?", 1)>>}

PreloadLists == {<<>>, <<"Profile">>}

HookLists ==
    {<<>>, <<"bump">>, <<"failZero", "bump">>, <<"failEdit">>, <<"bump", "failKeep">>}

PageSizes == {1, 2, DefaultPageSize}
Pages == {1, 2, 3}

NilQC == [nil |-> TRUE]

PointInputs(v) ==
    IF v = "pkg"
    THEN {NilQC} \cup [nil : {FALSE}, Wheres : WhereLists, Preloads : PreloadLists]
    ELSE {NilQC} \cup [nil : {FALSE}, Wheres : WhereLists]

ListInputs(v) ==
    IF v = "pkg"
    THEN [nil : {FALSE}, PageSize : PageSizes, Page : Pages, Order : {DESC, ASC},
          OrderBy : {DefaultOrderBy, "id"}, Wheres : WhereLists,
          AdviceItemFuncs : HookLists, Preloads : PreloadLists]
    ELSE [nil : {FALSE}, PageSize : PageSizes, Page : Pages, Order : {DESC, ASC},
          OrderBy : {DefaultOrderBy, "id"}, Wheres : WhereLists]

\* what the store answers to Delete of a nil pointer
NilDeleteAnswers == {ErrInvalidValue, NoErr}

NoBefore == [pre |-> <<>>, fault |-> {}, err |-> NoErr]

Called(op, dc, tdc, qc, arg, fault, out) ==
    [op |-> op, dc |-> dc.nil, tdc |-> tdc.nil, qc |-> qc, arg |-> arg,
     fault |-> fault, pre |-> store, out |-> out, before |-> NoBefore]

NoCall == [op |-> "none", dc |-> FALSE, tdc |-> FALSE, qc |-> NilQC, arg |-> ZeroT,
           fault |-> {}, pre |-> <<>>, out |-> Out(NoErr, NoRes, <<>>, 0, <<>>),
           before |-> NoBefore]

(***************************************************************************)
(* src/pkg/gormer.go: the configuration builders.  A With* method changes  *)
(* the object its receiver points to and returns the receiver.             *)
(***************************************************************************)
NewQueryListConfig ==
    [alloc |-> TRUE, PageSize |-> DefaultPageSize, Page |-> DefaultPage,
     Order |-> DESC, OrderBy |-> DefaultOrderBy, Wheres |-> <<>>,
     AdviceItemFuncs |-> <<>>, Preloads |-> <<>>]

WithWheres(qc, wheres) == [qc EXCEPT !.Wheres = @ \o wheres]

WithPreloads(qc, preloads) == [qc EXCEPT !.Preloads = @ \o preloads]

WithAdviceItemFunc(qc, funcs) == [qc EXCEPT !.AdviceItemFuncs = @ \o funcs]

WithOrderBy(qc, orderBy) == [qc EXCEPT !.OrderBy = orderBy]

WithOrder(qc, order) == [qc EXCEPT !.Order = order]

\* mutant: no clamp on the page size
WithPageSizeUnchecked(qc, pageSize) == [qc EXCEPT !.PageSize = pageSize]

WithPageSize(qc, pageSize) ==
    IF pageSize <= 0 THEN qc ELSE [qc EXCEPT !.PageSize = pageSize]

WithPage(qc, page) ==
    IF page <= 0 THEN qc ELSE [qc EXCEPT !.Page = page]

NewQueryConfig == [alloc |-> TRUE, Wheres |-> <<>>, Preloads |-> <<>>]

QueryConfigWithWheres(qc, wheres) == [qc EXCEPT !.Wheres = @ \o wheres]

QueryConfigWithPreloads(qc, preloads) == [qc EXCEPT !.Preloads = @ \o preloads]

(***************************************************************************)
(* src/unnamed/part_000: the configuration builders of the earlier file    *)
(***************************************************************************)
\* var defaultQuery, var defaultQueryConfig: one object each, made at load
defaultQuery ==
    [alloc |-> TRUE, PageSize |-> DefaultPageSize, Page |-> DefaultPage,
     Order |-> DESC, OrderBy |-> DefaultOrderBy, Wheres |-> <<>>]

defaultQueryConfig == [alloc |-> TRUE, Wheres |-> <<>>]

WithWheresV0(qc, wheres) == [qc EXCEPT !.Wheres = @ \o wheres]

WithOrderByV0(qc, orderBy) == [qc EXCEPT !.OrderBy = orderBy]

WithOrderV0(qc, order) == [qc EXCEPT !.Order = order]

WithPageSizeV0(qc, pageSize) ==
    IF pageSize <= 0 THEN qc ELSE [qc EXCEPT !.PageSize = pageSize]

WithPageV0(qc, page) ==
    IF page <= 0 THEN qc ELSE [qc EXCEPT !.Page = page]

QueryConfigWithWheresV0(qc, wheres) == [qc EXCEPT !.Wheres = @ \o wheres]

(***************************************************************************)
(* The heap the configurations live in, and the caller's pointers          *)
(***************************************************************************)
Slots == {1, 2}
NoRef == [ref |-> FALSE]
Ref(a) == [ref |-> TRUE, addr |-> a]
Unalloc == [alloc |-> FALSE]
SharedAddr == "package"
HeapAddrs == {"heap1", "heap2"}
Addrs == {SharedAddr} \cup HeapAddrs

Referenced(refs) == {refs[s].addr : s \in {x \in Slots : refs[x].ref}}

\* an address no other pointer of the caller holds: a fresh allocation
FreshAddr(refs, slot) ==
    CHOOSE a \in HeapAddrs : a \notin Referenced([refs EXCEPT ![slot] = NoRef])

\* objects no pointer reaches are gone
Collect(objs, refs) ==
    [a \in Addrs |-> IF a \in Referenced(refs) \/ a = SharedAddr THEN objs[a] ELSE Unalloc]

\* where NewQueryListConfig / NewQueryConfig put the object they return
CtorAddr(refs, slot) == FreshAddr(refs, slot)

CtorAddrV0(refs, slot) == SharedAddr

NoBuild == [op |-> "none", kind |-> "none", slot |-> 0, lists |-> <<>>, points |-> <<>>]

Built(op, kind, slot, arg) ==
    [op |-> op, kind |-> kind, slot |-> slot, arg |-> arg,
     lists |-> listObjs, points |-> pointObjs]

cfgVars == <<listObjs, pointObjs, listRef, pointRef, call, steps>>

engineVars == <<store, last>>

Init ==
    /\ variant \in Variants
    /\ store = <<>>
    /\ last = NoCall
    /\ listObjs = [a \in Addrs |->
            IF variant = "unnamed" /\ a = SharedAddr THEN defaultQuery ELSE Unalloc]
    /\ pointObjs = [a \in Addrs |->
            IF variant = "unnamed" /\ a = SharedAddr THEN defaultQueryConfig ELSE Unalloc]
    /\ listRef = [s \in Slots |-> NoRef]
    /\ pointRef = [s \in Slots |-> NoRef]
    /\ call = NoBuild
    /\ steps = 0

(***************************************************************************)
(* Query Engine actions.  Every operation is one synchronous call: the     *)
(* caller makes it when idle, and takes the outcome (Return) before the    *)
(* next call.                                                              *)
(***************************************************************************)
Idle == last.op = "none"

DoQueryList ==
    /\ Idle
    /\ \E hs \in HandlePairs, qc \in ListInputs(variant),
       fault \in {{}, {"count"}, {"find"}} :
        LET dc == hs[1]  tdc == hs[2] IN
        \E o \in (IF variant = "pkg" THEN QueryList(dc, tdc, qc, store, fault)
                  ELSE QueryListV0(dc, tdc, qc, store, fault)) :
            /\ last' = Called("QueryList", dc, tdc, qc, ZeroT, fault, o)
            /\ store' = o.store
            /\ UNCHANGED <<variant, cfgVars>>

DoCreate ==
    /\ Idle
    /\ \E db \in Handles, t \in Entities, fault \in {{}, {"create"}} :
        LET o == IF variant = "pkg" THEN Create(db, t, store, fault)
                 ELSE CreateV0(db, t, store, fault)
        IN  /\ last' = Called("Create", db, db, NilQC, t, fault, o)
            /\ store' = o.store
            /\ UNCHANGED <<variant, cfgVars>>

DoUpdate ==
    /\ Idle
    /\ \E db \in Handles, t \in Entities, fault \in {{}, {"save"}} :
        LET o == IF variant = "pkg" THEN Update(db, t, store, fault)
                 ELSE UpdateV0(db, t, store, fault)
        IN  /\ last' = Called("Update", db, db, NilQC, t, fault, o)
            /\ store' = o.store
            /\ UNCHANGED <<variant, cfgVars>>

DoExist ==
    /\ Idle
    /\ \E db \in Handles, qc \in PointInputs(variant), fault \in {{}, {"count"}} :
        LET o == IF variant = "pkg" THEN Exist(db, qc, store, fault)
                 ELSE ExistV0(db, qc, store, fault)
        IN  /\ last' = Called("Exist", db, db, qc, ZeroT, fault, o)
            /\ store' = o.store
            /\ UNCHANGED <<variant, cfgVars>>

DoQuery ==
    /\ Idle
    /\ \E db \in Handles, qc \in PointInputs(variant), fault \in {{}, {"first"}} :
        LET o == IF variant = "pkg" THEN Query(db, qc, store, fault)
                 ELSE QueryV0(db, qc, store, fault)
        IN  /\ last' = Called("Query", db, db, qc, ZeroT, fault, o)
            /\ store' = o.store
            /\ UNCHANGED <<variant, cfgVars>>

DoDelete ==
    /\ Idle
    /\ \E db \in Handles, qc \in PointInputs(variant),
       fault \in {{}, {"count"}, {"first"}, {"delete"}}, nilErr \in NilDeleteAnswers :
        LET o == IF variant = "pkg" THEN Delete(db, qc, store, fault, nilErr)
                 ELSE DeleteV0(db, qc, store, fault, nilErr)
        IN  /\ last' = Called("Delete", db, db, qc, ZeroT, fault, o)
            /\ store' = o.store
            /\ UNCHANGED <<variant, cfgVars>>

\* the caller repeats the Delete's lookup: Query, same handle, same configuration
DoQueryAfterDelete ==
    /\ last.op = "Delete"
    /\ \E fault \in {{}, {"first"}} :
        LET db == IF last.dc THEN NilDB ELSE Conn
            o  == IF variant = "pkg" THEN Query(db, last.qc, store, fault)
                  ELSE QueryV0(db, last.qc, store, fault)
        IN  /\ last' = [Called("QueryAfterDelete", db, db, last.qc, ZeroT, fault, o)
                           EXCEPT !.before = [pre |-> last.pre, fault |-> last.fault,
                                              err |-> last.out.err]]
            /\ store' = o.store
            /\ UNCHANGED <<variant, cfgVars>>

Return ==
    /\ ~Idle
    /\ last' = NoCall
    /\ UNCHANGED <<variant, store, cfgVars>>

Next ==
    \/ DoQueryAfterDelete
    \/ Return
    \/ DoQueryList
    \/ DoCreate
    \/ DoUpdate
    \/ DoExist
    \/ DoQuery
    \/ DoDelete

Spec == Init /\ [][Next]_vars

(***************************************************************************)
(* Builder actions: the caller holds two pointers of each kind             *)
(***************************************************************************)
WhereArgs == {<<Where("updated_at = ?", 1)>>, <<Where("updated_at = ?", 1), Where("id = ?", 1)>>}
PreloadArgs == {<<"Profile">>}
FuncArgs == {<<"bump">>, <<"failZero", "bump">>}
OrderByArgs == {"id", "created_at"}
OrderArgs == {DESC, ASC}
PageSizeArgs == {0 - 5, 0, 1, 25}
PageArgs == {0 - 5, 0, 2}

More == steps < MaxSteps

\* a With* call on the list configuration slot s points to
ListCall(op, s, arg, obj) ==
    /\ More
    /\ listRef[s].ref
    /\ listObjs' = [listObjs EXCEPT ![listRef[s].addr] = obj]
    /\ call' = Built(op, "list", s, arg)
    /\ steps' = steps + 1
    /\ UNCHANGED <<variant, engineVars, pointObjs, listRef, pointRef>>

PointCall(op, s, arg, obj) ==
    /\ More
    /\ pointRef[s].ref
    /\ pointObjs' = [pointObjs EXCEPT ![pointRef[s].addr] = obj]
    /\ call' = Built(op, "point", s, arg)
    /\ steps' = steps + 1
    /\ UNCHANGED <<variant, engineVars, listObjs, listRef, pointRef>>

ListObj(s) == listObjs[listRef[s].addr]
PointObj(s) == pointObjs[pointRef[s].addr]

DoNewQueryListConfig ==
    /\ More
    /\ \E s \in Slots :
        LET a    == IF variant = "pkg" THEN CtorAddr(listRef, s) ELSE CtorAddrV0(listRef, s)
            refs == [listRef EXCEPT ![s] = Ref(a)]
            objs == IF variant = "pkg" THEN [listObjs EXCEPT ![a] = NewQueryListConfig]
                    ELSE listObjs
        IN  /\ listRef' = refs
            /\ listObjs' = Collect(objs, refs)
            /\ call' = Built("NewQueryListConfig", "list", s, 0)
    /\ steps' = steps + 1
    /\ UNCHANGED <<variant, engineVars, pointObjs, pointRef>>

DoNewQueryConfig ==
    /\ More
    /\ \E s \in Slots :
        LET a    == IF variant = "pkg" THEN CtorAddr(pointRef, s) ELSE CtorAddrV0(pointRef, s)
            refs == [pointRef EXCEPT ![s] = Ref(a)]
            objs == IF variant = "pkg" THEN [pointObjs EXCEPT ![a] = NewQueryConfig]
                    ELSE pointObjs
        IN  /\ pointRef' = refs
            /\ pointObjs' = Collect(objs, refs)
            /\ call' = Built("NewQueryConfig", "point", s, 0)
    /\ steps' = steps + 1
    /\ UNCHANGED <<variant, engineVars, listObjs, listRef>>

DoWithWheres ==
    \E s \in Slots, w \in WhereArgs :
        ListCall("WithWheres", s, w,
                 IF variant = "pkg" THEN WithWheres(ListObj(s), w)
                 ELSE WithWheresV0(ListObj(s), w))

DoWithPreloads ==
    /\ variant = "pkg"
    /\ \E s \in Slots, p \in PreloadArgs :
        ListCall("WithPreloads", s, p, WithPreloads(ListObj(s), p))

DoWithAdviceItemFunc ==
    /\ variant = "pkg"
    /\ \E s \in Slots, f \in FuncArgs :
        ListCall("WithAdviceItemFunc", s, f, WithAdviceItemFunc(ListObj(s), f))

DoWithOrderBy ==
    \E s \in Slots, o \in OrderByArgs :
        ListCall("WithOrderBy", s, o,
                 IF variant = "pkg" THEN WithOrderBy(ListObj(s), o)
                 ELSE WithOrderByV0(ListObj(s), o))

DoWithOrder ==
    \E s \in Slots, o \in OrderArgs :
        ListCall("WithOrder", s, o,
                 IF variant = "pkg" THEN WithOrder(ListObj(s), o)
                 ELSE WithOrderV0(ListObj(s), o))

DoWithPageSize ==
    \E s \in Slots, n \in PageSizeArgs :
        ListCall("WithPageSize", s, n,
                 IF variant = "pkg" THEN WithPageSize(ListObj(s), n)
                 ELSE WithPageSizeV0(ListObj(s), n))

DoWithPage ==
    \E s \in Slots, n \in PageArgs :
        ListCall("WithPage", s, n,
                 IF variant = "pkg" THEN WithPage(ListObj(s), n)
                 ELSE WithPageV0(ListObj(s), n))

DoQueryConfigWithWheres ==
    \E s \in Slots, w \in WhereArgs :
        PointCall("WithWheres", s, w,
                  IF variant = "pkg" THEN QueryConfigWithWheres(PointObj(s), w)
                  ELSE QueryConfigWithWheresV0(PointObj(s), w))

DoQueryConfigWithPreloads ==
    /\ variant = "pkg"
    /\ \E s \in Slots, p \in PreloadArgs :
        PointCall("WithPreloads", s, p, QueryConfigWithPreloads(PointObj(s), p))

NextCfg ==
    \/ DoNewQueryListConfig
    \/ DoNewQueryConfig
    \/ DoWithWheres
    \/ DoWithPreloads
    \/ DoWithAdviceItemFunc
    \/ DoWithOrderBy
    \/ DoWithOrder
    \/ DoWithPageSize
    \/ DoWithPage
    \/ DoQueryConfigWithWheres
    \/ DoQueryConfigWithPreloads

SpecCfg == Init /\ [][NextCfg]_vars

(***************************************************************************)
(* Properties                                                              *)
(***************************************************************************)
Range(f) == {f[i] : i \in DOMAIN f}

\* the stored rows a point configuration's filters select
Matching(st, qc) == Scoped(st, IF qc.nil THEN Conn ELSE ApplyWheres(Conn, qc.Wheres))

PointCalls == {"Create", "Update", "Delete", "Exist", "Query", "QueryAfterDelete"}

\* C1: Delete with a non-nil handle and filters matching no row (the store
\* answering every call) returns no error, issues no delete against the
\* store and leaves the stored rows as they were.
C1_DeleteNoMatchIsNoop ==
    (last.op = "Delete" /\ ~last.dc /\ last.fault = {}
        /\ Matching(last.pre, last.qc) = {})
    => (/\ last.out.err = NoErr
        /\ "delete" \notin Range(last.out.calls)
        /\ store = last.pre)

\* the rows the hooks should leave, were a failed hook's row kept as it was
KeepOnError(f, data) ==
    [j \in 1..Len(data) |->
        IF Advice(f, data[j]).err = NoErr THEN Advice(f, data[j]).t ELSE data[j]]

RECURSIVE ExpectedData(_, _)
ExpectedData(fs, data) ==
    IF fs = <<>> THEN data ELSE ExpectedData(Tail(fs), KeepOnError(Head(fs), data))

ListCallOk ==
    last.op = "QueryList" /\ ~last.dc /\ ~last.tdc /\ last.fault = {}

Fetched ==
    {f.data : f \in DbFind(last.pre, ApplyWheres(Conn, last.qc.Wheres), last.qc.OrderBy,
                           OrderString(last.qc.Order),
                           (last.qc.Page - 1) * last.qc.PageSize, last.qc.PageSize, {})}

\* C2: in QueryList a row whose hook returned an error keeps the value it had
\* before that hook (the value returned with the error is not stored), later
\* hooks still run on it, and the call returns a result and no error.
C2_HookErrorKeepsRow ==
    (ListCallOk /\ variant = "pkg")
    => (/\ last.out.err = NoErr
        /\ ~last.out.res.nil
        /\ \E d \in Fetched :
            /\ last.out.res.Data = ExpectedData(last.qc.AdviceItemFuncs, d)
            /\ Len(last.out.calls) = 2 + Len(last.qc.AdviceItemFuncs) * Len(d))

WithOps == {"WithWheres", "WithPreloads", "WithAdviceItemFunc", "WithOrderBy",
            "WithOrder", "WithPageSize", "WithPage"}

\* C3: two configurations obtained from separate constructor calls are
\* independent: a With* call on one leaves every field of the other unchanged.
C3_ConfigsIndependent ==
    \A s \in Slots, o \in Slots :
        (call.op \in WithOps /\ call.slot = s /\ o # s)
        => (/\ (call.kind = "list" /\ listRef[o].ref)
                => listObjs[listRef[o].addr] = call.lists[listRef[o].addr]
            /\ (call.kind = "point" /\ pointRef[o].ref)
                => pointObjs[pointRef[o].addr] = call.points[pointRef[o].addr])

\* C4: Exist with a non-nil handle returns (false, nil) when no row matches,
\* (true, nil) when a row matches, and a non-nil error whenever the count
\* fails; a failed count is never reported as (false, nil).
C4_ExistReportsCountFailure ==
    (last.op = "Exist" /\ ~last.dc)
    => IF "count" \in last.fault
       THEN last.out.err # NoErr
       ELSE /\ last.out.err = NoErr
            /\ last.out.res.b = (Matching(last.pre, last.qc) # {})

\* C5: Query with a non-nil handle returns (nil, nil) exactly when the store
\* reports that no row matches, (nil, error) for every other store failure,
\* and a matching row with no error otherwise.
C5_QueryNotFoundIsNotAnError ==
    (last.op \in {"Query", "QueryAfterDelete"} /\ ~last.dc)
    => IF "first" \in last.fault
       THEN last.out.res.nil /\ last.out.err = ErrStore
       ELSE IF Matching(last.pre, last.qc) = {}
       THEN last.out.res.nil /\ last.out.err = NoErr
       ELSE /\ ~last.out.res.nil
            /\ last.out.err = NoErr
            /\ last.out.res.t \in Matching(last.pre, last.qc)

C5_Witness ==
    /\ last.op = "Query" /\ ~last.dc /\ last.fault = {}
    /\ last.pre # <<>>
    /\ Matching(last.pre, last.qc) = {}
    /\ last.out.res.nil /\ last.out.err = NoErr

\* C6: with pageSize > 0, page > 0 and no filters (the store answering both
\* calls), QueryList returns total = the number of stored rows, page = the
\* configured page, and len(data) = min(pageSize, total - offset) with
\* offset = (page - 1) * pageSize, 0 when offset >= total; so len(data) <= pageSize.
C6_PageLength ==
    (ListCallOk /\ last.qc.Wheres = <<>>)
    => LET total  == Cardinality(DOMAIN last.pre)
           offset == (last.qc.Page - 1) * last.qc.PageSize
       IN  /\ last.out.err = NoErr
           /\ ~last.out.res.nil
           /\ last.out.res.Total = total
           /\ last.out.res.Page = last.qc.Page
           /\ Len(last.out.res.Data) =
                (IF offset >= total THEN 0 ELSE Min(last.qc.PageSize, total - offset))
           /\ Len(last.out.res.Data) <= last.qc.PageSize

C6_Witness ==
    /\ ListCallOk /\ last.qc.Wheres = <<>>
    /\ last.qc.PageSize = 2 /\ last.qc.Page = 2
    /\ last.out.res.Total = 3
    /\ Len(last.out.res.Data) = 1

\* C7: WithPageSize(n) and WithPage(n) with n <= 0 leave the whole
\* configuration as it was, with n > 0 they set exactly that one field to n;
\* so every list configuration built by With* calls has pageSize > 0 and page > 0.
C7_PageClamp ==
    /\ \A a \in Addrs : listObjs[a].alloc => (listObjs[a].PageSize > 0 /\ listObjs[a].Page > 0)
    /\ (call.kind = "list" /\ call.op = "WithPageSize")
        => /\ listObjs = [call.lists EXCEPT ![listRef[call.slot].addr] =
                            IF call.arg <= 0 THEN @ ELSE [@ EXCEPT !.PageSize = call.arg]]
           /\ pointObjs = call.points
    /\ (call.kind = "list" /\ call.op = "WithPage")
        => /\ listObjs = [call.lists EXCEPT ![listRef[call.slot].addr] =
                            IF call.arg <= 0 THEN @ ELSE [@ EXCEPT !.Page = call.arg]]
           /\ pointObjs = call.points

C7_Witness ==
    /\ call.kind = "list" /\ call.op = "WithPageSize" /\ call.arg <= 0
    /\ listObjs[listRef[call.slot].addr].PageSize = 25
    /\ listObjs = call.lists

\* C8: Create, Update, Delete, Exist and Query called with a nil handle
\* return "get db client failed" and issue no store call.
C8_NilHandleFailsFirst ==
    (last.op \in PointCalls /\ last.dc)
    => (/\ last.out.err = ErrNoClient
        /\ last.out.calls = <<>>
        /\ store = last.pre)

C8_Witness ==
    /\ last.op = "Delete" /\ last.dc
    /\ last.pre # <<>>
    /\ Matching(last.pre, last.qc) # {}
    /\ last.out.err = ErrNoClient

\* C9: when exactly one stored row matches the filters (and the store answers
\* every call), Delete returns no error and removes that row and no other,
\* and a following Query with the same configuration returns (nil, nil).
C9_DeleteOneThenQuery ==
    /\ (last.op = "Delete" /\ ~last.dc /\ last.fault = {}
            /\ Cardinality(Matching(last.pre, last.qc)) = 1)
        => (/\ last.out.err = NoErr
            /\ Rows(store) = Rows(last.pre) \ Matching(last.pre, last.qc))
    /\ (last.op = "QueryAfterDelete" /\ ~last.dc /\ last.fault = {}
            /\ last.before.fault = {}
            /\ Cardinality(Matching(last.before.pre, last.qc)) = 1)
        => (last.out.res.nil /\ last.out.err = NoErr)

C9_Witness ==
    /\ last.op = "QueryAfterDelete" /\ ~last.dc /\ last.fault = {}
    /\ last.before.fault = {}
    /\ Cardinality(DOMAIN last.before.pre) = 3
    /\ Cardinality(Matching(last.before.pre, last.qc)) = 1
    /\ Cardinality(DOMAIN store) = 2
    /\ last.out.res.nil

\* C10: QueryList runs the count before the fetch and the fetch before any
\* hook; a failed count returns (nil, the store error) with no fetch and no
\* hook, a failed fetch returns (nil, the store error) with no hook, and a
\* result is returned only when both store calls succeeded.
C10_CountFetchHooks ==
    last.op = "QueryList"
    => LET calls == last.out.calls IN
       /\ \A i \in DOMAIN calls :
            /\ calls[i] = "count" <=> i = 1
            /\ calls[i] = "find" <=> i = 2
            /\ calls[i] = "hook" <=> i > 2
       /\ (~last.dc /\ ~last.tdc /\ "count" \in last.fault)
            => (last.out.res.nil /\ last.out.err = ErrStore /\ calls = <<"count">>)
       /\ (~last.dc /\ ~last.tdc /\ "find" \in last.fault)
            => (last.out.res.nil /\ last.out.err = ErrStore /\ calls = <<"count", "find">>)
       /\ (last.out.res.kind = "list" /\ ~last.out.res.nil)
            => (last.fault = {} /\ last.out.err = NoErr /\ Len(calls) >= 2)

C10_Witness ==
    /\ last.op = "QueryList" /\ ~last.dc /\ ~last.tdc
    /\ variant = "pkg"
    /\ "count" \in last.fault
    /\ last.pre # <<>>
    /\ last.qc.AdviceItemFuncs # <<>>
    /\ last.out.calls = <<"count">>

====
